---- MODULE Spec2Model ----
(***************************************************************************)
(* Model of src/meeting_processor.py: MeetingProcessor.run() and the       *)
(* stages it sequences, the retry wrapper around content generation, the   *)
(* upload/release protocol and the two cleanup policies.                   *)
(*                                                                         *)
(* The external collaborators (HandBrakeCLI, ffmpeg, ffprobe, the Gemini   *)
(* service, questionary, the file system) are the environment: every       *)
(* outcome they can produce is a nondeterministic input of the action that *)
(* calls them.                                                             *)
(***************************************************************************)
EXTENDS Integers, Sequences, FiniteSets, TLC

\* ------------------------------------------------------------------ bounds
\* Largest number of frame images the frame-extraction tool leaves on disk.
MaxFrames == 2

\* ------------------------------------------------------- program constants
\* _retry_with_exponential_backoff(self, func, max_retries=5, base_delay=60)
max_retries == 5
base_delay == 60

VARIABLES
    \* configuration (Config) and the arguments of run()
    dry_run,                \* config.dry_run
    no_cleanup,             \* config.no_cleanup
    target_directory,       \* config.target_directory: "" or "override"
    preferred_date_source,  \* config.preferred_date_source (mutated by _extract_datetime)
    date_source_setting,    \* history: PREFERRED_DATE_SOURCE as load_config() read it
    parameter_defaults,     \* model_limits[model]["parameter_defaults"], in hundredths
    max_images,             \* model_limits["max_images_per_prompt"]
    prompt_type,            \* run(prompt_type=...)
    prompt_file,            \* the template _select_and_copy_prompt resolved, "" before
    \* MeetingProcessor fields and the position inside run()
    pc,                     \* the statement of run() / _upload_to_gemini executed next
    target_dir,             \* self.target_dir: "" until _create_target_directory sets it
    \* the file system
    wsExists,               \* the directory named by target_dir / target_directory exists
    wsFiles,                \* names of the entries of that directory
    frameFiles,             \* frames/*.jpg in the order glob() lists them
    meeting_md,             \* content of meeting.md: "absent", "empty", "text"
    note_txt,               \* content of note.txt: "absent", "empty", "content"
    videoInWs,              \* the input video lies inside the target directory
    videoExists,            \* the input video file still exists
    \* _extract_datetime
    tried,                  \* the datetime sources attempted, in order
    \* _upload_to_gemini
    files_to_upload,        \* the manifest: sequence of [kind, n]
    upIdx,                  \* index of the manifest entry uploaded next
    uploadOutcome,          \* per attempted manifest entry: TRUE iff its upload succeeded
    uploaded_files,         \* [keys, audio, frames, note]: the dict of remote handles
    content_parts,          \* the generation request
    generation_config,      \* <<what get_parameter_defaults returned>>, <<>> before
    response,               \* "none", "text", "empty": response.text of the generation call
    \* _retry_with_exponential_backoff
    attempt,                \* loop variable
    calls,                  \* invocations of func()
    sleeps,                 \* arguments of time.sleep(), in order
    caught,                 \* <<e>> inside the except block (the local e), else <<>>
    is_503_error,           \* the local is_503_error of the except block
    outcomes,               \* history: per call of func(), "ok", "retryable" or "fatal"
    \* remote service and history
    remote,                 \* handles alive on the service
    released,               \* handles whose delete was attempted, in order
    releaseFailed,          \* a delete raised
    effects,                \* external side effects performed so far
    exc,                    \* <<e>>: the exception in flight in run(), <<>> if none
    rollbacks,              \* executions of _cleanup_on_failure
    rollbackResult          \* history: the branch _cleanup_on_failure took

cfgVars == <<dry_run, no_cleanup, target_directory, max_images, prompt_type,
             date_source_setting, parameter_defaults>>
fsVars == <<wsExists, wsFiles, frameFiles, meeting_md, note_txt, videoInWs, videoExists>>
upVars == <<files_to_upload, upIdx, uploadOutcome, uploaded_files, content_parts,
           generation_config, response>>
retryVars == <<attempt, calls, sleeps, caught, is_503_error, outcomes>>
remoteVars == <<remote, released, releaseFailed>>
vars == <<cfgVars, preferred_date_source, prompt_file, pc, target_dir, fsVars, tried, upVars,
          retryVars, remoteVars, effects, exc, rollbacks, rollbackResult>>

\* ------------------------------------------------------------ exceptions
\* The fields of an exception that the retry wrapper probes (lines 670-682):
\* status_code, message, details ("absent" when the attribute does not
\* exist) and whether str(e) contains "503" / "UNAVAILABLE".
StatusCodes == {"absent", "503", "500"}
TextFields == {"absent", "has503", "no503"}
ErrorShapes == [status_code : StatusCodes, message : TextFields, details : TextFields,
                str503 : BOOLEAN, strUnavailable : BOOLEAN]

\* An exception without any of the probed attributes and a plain message.
PlainShape == [status_code |-> "absent", message |-> "absent", details |-> "absent",
               str503 |-> FALSE, strUnavailable |-> FALSE]

\* The exception a stage raises: the stage, the raise statement, the shape.
Error(stage, what) == [stage |-> stage, what |-> what, shape |-> PlainShape]
ServiceError(stage, what, shape) == [stage |-> stage, what |-> what, shape |-> shape]

\* --------------------------------------------------------------- handles
Entry(kind, n) == [kind |-> kind, n |-> n]
\* client.files.upload(file=path) returns a remote file object; .name identifies it.
Handle(entry) == [name |-> entry]
NoUploads == [keys |-> {}, audio |-> <<>>, frames |-> <<>>, note |-> <<>>]

\* ------------------------------------------------------------------ Init
PromptTypes == {"", "prompt_only_transcript.txt", "only transcript"}
DateSources == {"metadata", "file_mtime", "manual", "bogus"}
\* What the target directory holds before the run: it does not exist, it holds
\* a file of somebody else, it holds the input video.
PreContents == {"nodir", "foreign", "video"}

\* Parameter values are counted in hundredths: n units are 100 * n.
Units(n) == 100 * n

\* The parameter defaults the program ships (lines 87-92, 133-138):
\* temperature 0.3, top_p 0.95, top_k 64, candidate_count 1.
ShippedDefaults ==
    [temperature |-> 30, top_p |-> 95, top_k |-> Units(64), candidate_count |-> Units(1)]

\* Parameter defaults a model limits file can hold: below, at the ends of,
\* inside and above each documented range, whole and fractional.
ParamInputs ==
    [temperature : {-50, 0, 30, Units(2), 250},
     top_p : {-10, 0, 95, Units(1), 120},
     top_k : {Units(10), Units(64), Units(100)},
     candidate_count : {-150, 50, Units(1), 250, Units(8), 850}]

InitFs(pre) ==
    /\ wsExists = (pre # "nodir")
    /\ wsFiles = (CASE pre = "foreign" -> {"foreign"}
                    [] pre = "video" -> {"input_video"}
                    [] OTHER -> {})
    /\ videoInWs = (pre = "video")
    /\ videoExists = TRUE
    /\ frameFiles = <<>>
    /\ meeting_md = "absent"
    /\ note_txt = "absent"

\* The state after MeetingProcessor(config) was constructed, for a
\* configuration (dry_run, no_cleanup, target_directory, preferred_date_source,
\* max_images), an argument of run() and a target directory drawn from the
\* given sets.
InitWith(Flags, Targets, Sources, Ceilings, Prompts, Pres) ==
    /\ dry_run \in Flags
    /\ no_cleanup \in Flags
    /\ target_directory \in Targets
    /\ preferred_date_source \in Sources
    /\ date_source_setting = preferred_date_source
    /\ max_images \in Ceilings
    /\ prompt_type \in Prompts
    /\ prompt_file = ""
    /\ pc = "extract_datetime"
    /\ target_dir = ""
    \* the input video can lie in a directory the user names with --directory
    /\ \E pre \in Pres : (pre = "video" => target_directory # "") /\ InitFs(pre)
    /\ tried = <<>>
    /\ files_to_upload = <<>>
    /\ upIdx = 1
    /\ uploadOutcome = <<>>
    /\ uploaded_files = NoUploads
    /\ content_parts = <<>>
    /\ generation_config = <<>>
    /\ response = "none"
    /\ attempt = 0
    /\ calls = 0
    /\ sleeps = <<>>
    /\ caught = <<>>
    /\ is_503_error = FALSE
    /\ outcomes = <<>>
    /\ remote = {}
    /\ released = <<>>
    /\ releaseFailed = FALSE
    /\ effects = {}
    /\ exc = <<>>
    /\ rollbacks = 0
    /\ rollbackResult = "none"

\* Every configuration and target directory, the date being asked from the user.
Init ==
    /\ InitWith(BOOLEAN, {"", "override"}, {"manual"}, 1..MaxFrames, PromptTypes, PreContents)
    /\ parameter_defaults = ShippedDefaults

\* A real run into a new timestamp directory, the date being asked from the user.
RetryInit ==
    /\ InitWith({FALSE}, {""}, {"manual"}, {MaxFrames}, {""}, {"nodir"})
    /\ parameter_defaults = ShippedDefaults

\* Every setting of PREFERRED_DATE_SOURCE, in a simulation and in a real run
\* into a new timestamp directory.
DateInit ==
    /\ InitWith(BOOLEAN, {""}, DateSources, {MaxFrames}, {""}, {"nodir"})
    /\ parameter_defaults = ShippedDefaults

\* A real transcript-only run into a new timestamp directory, for every set of
\* parameter defaults.
ParamInit ==
    /\ InitWith({FALSE}, {""}, {"manual"}, {MaxFrames}, {"prompt_only_transcript.txt"},
                {"nodir"})
    /\ parameter_defaults \in ParamInputs

\* raise e inside run()'s try block: control moves to the except clause.
Raise(e) ==
    /\ exc' = <<e>>
    /\ pc' = "except"

\* ------------------------------------------------------ the steps of run()
\* A run() that extracts the audio before it converts the video.
StepAfter_AudioFirst(step) ==
    CASE step = "extract_datetime" -> "create_target_directory"
      [] step = "create_target_directory" -> "extract_audio"
      [] step = "extract_audio" -> "convert_video"
      [] step = "convert_video" -> "extract_frames"
      [] step = "extract_frames" -> "create_meeting_md"
      [] step = "create_meeting_md" -> "select_and_copy_prompt"
      [] step = "select_and_copy_prompt" -> "create_note_txt"
      [] step = "create_note_txt" -> "upload_to_gemini"
      [] step = "upload_to_gemini" -> "cleanup"
      [] step = "cleanup" -> "done"

\* Lines 281-313: the statement of run() that follows the return of a step.
StepAfter(step) ==
    CASE step = "extract_datetime" -> "create_target_directory"
      [] step = "create_target_directory" -> "convert_video"
      [] step = "convert_video" -> "extract_audio"
      [] step = "extract_audio" -> "extract_frames"
      [] step = "extract_frames" -> "create_meeting_md"
      [] step = "create_meeting_md" -> "select_and_copy_prompt"
      [] step = "select_and_copy_prompt" -> "create_note_txt"
      [] step = "create_note_txt" -> "upload_to_gemini"
      [] step = "upload_to_gemini" -> "cleanup"
      [] step = "cleanup" -> "done"

\* ------------------------------------------------- step 1: _extract_datetime
valid_sources == {"metadata", "file_mtime", "manual"}

\* A manual source that asks the user in a dry run as well.
get_manual_datetime_AlwaysAsks(manualOk) == manualOk

\* _get_manual_datetime: the placeholder time in a dry run, otherwise the
\* questionary prompt, whose answer strptime() may reject (manualOk = FALSE).
get_manual_datetime(manualOk) == dry_run \/ manualOk

\* A chain that probes the metadata once more after file_mtime failed.
ExtractDatetime_MetadataAgain(pref0, metaOk, mtimeOk, manualOk) ==
    LET p1 == IF pref0 \notin {"metadata", "file_mtime", "manual"} THEN "metadata" ELSE pref0
        tryMeta == p1 = "metadata"
        ret1 == tryMeta /\ metaOk
        tryMtime == ~ret1 /\ p1 # "manual"
        ret2 == tryMtime /\ mtimeOk
        again == tryMtime /\ ~mtimeOk
    IN  [tried |-> (IF tryMeta THEN <<"metadata">> ELSE <<>>)
                   \o (IF tryMtime THEN <<"file_mtime">> ELSE <<>>)
                   \o (IF again THEN <<"metadata">> ELSE <<>>)
                   \o (IF ~ret1 /\ ~ret2 THEN <<"manual">> ELSE <<>>),
         pref |-> IF ret1 \/ ret2 THEN p1 ELSE "manual",
         ok |-> ret1 \/ ret2 \/ dry_run \/ manualOk]

\* A chain that walks the same sources and leaves the configuration as it was.
ExtractDatetime_SettingUntouched(pref0, metaOk, mtimeOk, manualOk) ==
    LET p1 == IF pref0 \notin {"metadata", "file_mtime", "manual"} THEN "metadata" ELSE pref0
        tryMeta == p1 = "metadata"
        ret1 == tryMeta /\ metaOk
        tryMtime == ~ret1 /\ p1 # "manual"
        ret2 == tryMtime /\ mtimeOk
        tryManual == ~ret1 /\ ~ret2
    IN  [tried |-> (IF tryMeta THEN <<"metadata">> ELSE <<>>)
                   \o (IF tryMtime THEN <<"file_mtime">> ELSE <<>>)
                   \o (IF tryManual THEN <<"manual">> ELSE <<>>),
         pref |-> pref0,
         ok |-> ret1 \/ ret2 \/ (tryManual /\ (dry_run \/ manualOk))]

\* The chain of lines 325-351 as a function of the configured source and of
\* what each source answers: the sources attempted in order, the final value
\* of config.preferred_date_source, whether a timestamp is returned.
ExtractDatetime(pref0, metaOk, mtimeOk, manualOk) ==
    LET p1 == IF pref0 \notin valid_sources THEN "metadata" ELSE pref0
        tryMeta == p1 = "metadata"
        ret1 == tryMeta /\ metaOk
        p2 == IF tryMeta /\ ~metaOk THEN "file_mtime" ELSE p1
        tryMtime == ~ret1 /\ p2 = "file_mtime"
        ret2 == tryMtime /\ mtimeOk
        p3 == IF tryMtime /\ ~mtimeOk THEN "manual" ELSE p2
        tryManual == ~ret1 /\ ~ret2 /\ p3 = "manual"
    IN  [tried |-> (IF tryMeta THEN <<"metadata">> ELSE <<>>)
                   \o (IF tryMtime THEN <<"file_mtime">> ELSE <<>>)
                   \o (IF tryManual THEN <<"manual">> ELSE <<>>),
         pref |-> p3,
         ok |-> ret1 \/ ret2 \/ (tryManual /\ get_manual_datetime(manualOk))]

extract_datetime ==
    /\ pc = "extract_datetime"
    /\ \E metaOk \in BOOLEAN, mtimeOk \in BOOLEAN, manualOk \in BOOLEAN :
         LET r == ExtractDatetime(preferred_date_source, metaOk, mtimeOk, manualOk) IN
         /\ tried' = r.tried
         /\ preferred_date_source' = r.pref
         \* _extract_datetime_from_metadata runs ffprobe whatever dry_run says
         /\ effects' = effects
                       \cup (IF r.tried # <<>> /\ r.tried[1] = "metadata"
                             THEN {"subprocess:ffprobe_metadata"} ELSE {})
                       \* questionary asks only outside a dry run (line 417)
                       \cup (IF ~dry_run /\ r.tried # <<>>
                                 /\ r.tried[Len(r.tried)] = "manual"
                             THEN {"tty:questionary"} ELSE {})
         /\ IF r.ok
            THEN pc' = StepAfter("extract_datetime") /\ exc' = exc
            ELSE Raise(Error("datetime", "manual input rejected"))
    /\ UNCHANGED <<cfgVars, prompt_file, target_dir, fsVars, upVars, retryVars,
                   remoteVars, rollbacks, rollbackResult>>

\* ----------------------------------------- step 2: _create_target_directory
\* _update_logging_with_file: the FileHandler creates process.log when the
\* directory exists (dry run or not).
WithLog(files, exists) == IF exists THEN files \cup {"process.log"} ELSE files

create_target_directory ==
    /\ pc = "create_target_directory"
    /\ target_dir' = IF target_directory # "" THEN "override" ELSE "timestamp"
    /\ \E mkdirOk \in BOOLEAN :
         \* mkdir(exist_ok=True) is skipped in a dry run, succeeds on an existing
         \* directory and may fail to create a new one
         LET exists == wsExists \/ (~dry_run /\ mkdirOk)
             failed == ~dry_run /\ ~wsExists /\ ~mkdirOk
         IN
         /\ wsExists' = exists
         /\ wsFiles' = IF failed THEN wsFiles ELSE WithLog(wsFiles, exists)
         /\ effects' = effects
                       \cup (IF ~dry_run /\ ~wsExists /\ mkdirOk THEN {"fs:mkdir"} ELSE {})
                       \cup (IF ~failed /\ exists THEN {"fs:process.log"} ELSE {})
         /\ IF failed
            THEN Raise(Error("mkdir", "mkdir failed"))
            ELSE pc' = StepAfter("create_target_directory") /\ exc' = exc
    /\ UNCHANGED <<cfgVars, preferred_date_source, prompt_file, frameFiles, meeting_md,
                   note_txt, videoInWs, videoExists, tried, upVars, retryVars,
                   remoteVars, rollbacks, rollbackResult>>

\* ---------------------------------------------------- step 3: _convert_video
\* What HandBrakeCLI can do: exit non-zero, or exit 0 having written no file,
\* an empty file or a non-empty file.
ConvertOutcomes == {"exit_nonzero", "exit0_missing", "exit0_empty", "exit0_ok"}

\* What the tool left at output_path: nothing, a file of zero bytes, a video.
ConvertOutput(o) ==
    CASE o = "exit0_ok" -> {"small.mp4"}
      [] o = "exit0_empty" -> {"small.mp4 (0 bytes)"}
      [] OTHER -> {}

\* A validation that trusts the exit status.
ConvertAccepted_ExitStatusOnly(o) == o # "exit_nonzero"

\* Lines 484-493: the three checks after the subprocess returned.
ConvertAccepted(o) == o # "exit_nonzero" /\ o # "exit0_missing" /\ o # "exit0_empty"

convert_video ==
    /\ pc = "convert_video"
    /\ \E presetExists \in BOOLEAN, o \in ConvertOutcomes :
         IF ~presetExists
         THEN /\ Raise(Error("convert", "preset file not found"))
              /\ UNCHANGED <<wsFiles, effects>>
         ELSE IF dry_run
         THEN /\ pc' = StepAfter("convert_video")
              /\ UNCHANGED <<exc, wsFiles, effects>>
         ELSE /\ effects' = effects \cup {"subprocess:HandBrakeCLI"}
              /\ wsFiles' = wsFiles \cup ConvertOutput(o)
              /\ IF ConvertAccepted(o)
                 THEN pc' = StepAfter("convert_video") /\ exc' = exc
                 ELSE Raise(Error("convert", o))
    /\ UNCHANGED <<cfgVars, preferred_date_source, prompt_file, target_dir, wsExists,
                   frameFiles, meeting_md, note_txt, videoInWs, videoExists, tried,
                   upVars, retryVars, remoteVars, rollbacks, rollbackResult>>

\* ---------------------------------------------------- step 4: _extract_audio
AudioOutcomes == {"exit_nonzero", "exit0_nofile", "exit0_ok"}

extract_audio ==
    /\ pc = "extract_audio"
    /\ IF dry_run
       THEN /\ pc' = StepAfter("extract_audio")
            /\ UNCHANGED <<exc, wsFiles, effects>>
       ELSE \E o \in AudioOutcomes :
            /\ effects' = effects \cup {"subprocess:ffmpeg_audio"}
            /\ wsFiles' = IF o = "exit0_ok" THEN wsFiles \cup {"audio.m4a"} ELSE wsFiles
            \* only the exit status is checked
            /\ IF o # "exit_nonzero"
               THEN pc' = StepAfter("extract_audio") /\ exc' = exc
               ELSE Raise(Error("audio", o))
    /\ UNCHANGED <<cfgVars, preferred_date_source, prompt_file, target_dir, wsExists,
                   frameFiles, meeting_md, note_txt, videoInWs, videoExists, tried,
                   upVars, retryVars, remoteVars, rollbacks, rollbackResult>>

\* --------------------------------------------------- step 5: _extract_frames
\* A run() that decides on the template the argument resolves to.
FramesWanted_Resolved(pt) == pt \notin {"prompt_only_transcript.txt", "only transcript"}

\* run() line 294: the literal comparison that decides whether frames are extracted.
FramesWanted(pt) == pt # "prompt_only_transcript.txt"

\* The frames ffmpeg leaves in frames/, named by their position in glob()'s listing.
FrameList(m) == [i \in 1..m |-> i]

extract_frames ==
    /\ pc = "extract_frames"
    /\ IF ~FramesWanted(prompt_type)
       THEN /\ pc' = StepAfter("extract_frames")
            /\ UNCHANGED <<exc, wsFiles, frameFiles, effects>>
       ELSE IF dry_run
       THEN \* _extract_frames is called and only logs (lines 521, 543)
            /\ effects' = effects \cup {"log:extracting_frames"}
            /\ pc' = StepAfter("extract_frames")
            /\ UNCHANGED <<exc, wsFiles, frameFiles>>
       ELSE \E exit0 \in BOOLEAN, m \in 0..MaxFrames :
            /\ effects' = effects \cup {"log:extracting_frames", "fs:mkdir_frames",
                                        "subprocess:ffmpeg_frames"}
            /\ wsFiles' = wsFiles \cup {"frames"}
            /\ frameFiles' = FrameList(m)
            /\ IF exit0
               THEN pc' = StepAfter("extract_frames") /\ exc' = exc
               ELSE Raise(Error("frames", "exit_nonzero"))
    /\ UNCHANGED <<cfgVars, preferred_date_source, prompt_file, target_dir, wsExists,
                   meeting_md, note_txt, videoInWs, videoExists, tried,
                   upVars, retryVars, remoteVars, rollbacks, rollbackResult>>

\* ------------------------------------------------- step 6: _create_meeting_md
create_meeting_md ==
    /\ pc = "create_meeting_md"
    /\ IF dry_run
       THEN /\ pc' = StepAfter("create_meeting_md")
            /\ UNCHANGED <<exc, meeting_md, effects>>
       ELSE \E touchOk \in BOOLEAN :
            IF touchOk
            THEN /\ meeting_md' = IF meeting_md = "absent" THEN "empty" ELSE meeting_md
                 /\ effects' = effects \cup {"fs:meeting.md"}
                 /\ pc' = StepAfter("create_meeting_md")
                 /\ exc' = exc
            ELSE /\ Raise(Error("meeting_md", "touch failed"))
                 /\ UNCHANGED <<meeting_md, effects>>
    /\ UNCHANGED <<cfgVars, preferred_date_source, prompt_file, target_dir, wsExists,
                   wsFiles, frameFiles, note_txt, videoInWs, videoExists, tried,
                   upVars, retryVars, remoteVars, rollbacks, rollbackResult>>

\* -------------------------------------------- step 7: _select_and_copy_prompt
\* _resolve_prompt_shortcut (the model's inputs are lower case already)
resolve_prompt_shortcut(prompt_input) ==
    CASE prompt_input = "only transcript" -> "prompt_only_transcript.txt"
      [] prompt_input = "without transcript" -> "prompt_wo_transcript.txt"
      [] OTHER -> prompt_input

\* config.default_prompt
DefaultPrompts == {"prompt.txt", "prompt_only_transcript.txt"}

select_and_copy_prompt ==
    /\ pc = "select_and_copy_prompt"
    /\ \E default_prompt \in DefaultPrompts, templateExists \in BOOLEAN :
         /\ prompt_file' = IF prompt_type # ""
                           THEN resolve_prompt_shortcut(prompt_type)
                           ELSE resolve_prompt_shortcut(default_prompt)
         /\ IF ~templateExists
            THEN /\ Raise(Error("prompt", "template not found"))
                 /\ UNCHANGED <<wsFiles, effects>>
            ELSE /\ pc' = StepAfter("select_and_copy_prompt")
                 /\ exc' = exc
                 /\ wsFiles' = IF dry_run THEN wsFiles ELSE wsFiles \cup {"prompt.txt"}
                 /\ effects' = IF dry_run THEN effects ELSE effects \cup {"fs:prompt.txt"}
    /\ UNCHANGED <<cfgVars, preferred_date_source, target_dir, wsExists,
                   frameFiles, meeting_md, note_txt, videoInWs, videoExists, tried,
                   upVars, retryVars, remoteVars, rollbacks, rollbackResult>>

\* --------------------------------------------------- step 8: _create_note_txt
\* The note text: the notes argument of run() or what the user types (possibly
\* nothing); or the editor cannot be started / note.txt cannot be written.
NoteInputs == {"content", "empty", "failed"}

create_note_txt ==
    /\ pc = "create_note_txt"
    /\ IF dry_run
       THEN /\ pc' = StepAfter("create_note_txt")
            /\ UNCHANGED <<exc, note_txt, effects>>
       ELSE \E n \in NoteInputs :
            IF n = "failed"
            THEN /\ Raise(Error("note", "note not written"))
                 /\ UNCHANGED <<note_txt, effects>>
            ELSE /\ note_txt' = n
                 /\ effects' = effects \cup {"fs:note.txt"}
                 /\ pc' = StepAfter("create_note_txt")
                 /\ exc' = exc
    /\ UNCHANGED <<cfgVars, preferred_date_source, prompt_file, target_dir, wsExists,
                   wsFiles, frameFiles, meeting_md, videoInWs, videoExists, tried,
                   upVars, retryVars, remoteVars, rollbacks, rollbackResult>>

\* --------------------------------------------------- step 9: _upload_to_gemini
Min(a, b) == IF a < b THEN a ELSE b

\* A truncation that keeps the last frames.
Truncate_KeepsLast(frames, ceiling) ==
    SubSeq(frames, Len(frames) - Min(ceiling, Len(frames)) + 1, Len(frames))

\* Lines 784-786: frame_files[:max_images]
Truncate(frames, ceiling) == SubSeq(frames, 1, Min(ceiling, Len(frames)))

\* A manifest that lists the audio after the frames and the note.
CollectFiles_AudioLast ==
    (IF wsExists /\ "frames" \in wsFiles
     THEN [i \in 1..Len(Truncate(frameFiles, max_images)) |->
              Entry("frame", Truncate(frameFiles, max_images)[i])]
     ELSE <<>>)
    \o (IF wsExists /\ note_txt = "content" THEN <<Entry("note", 0)>> ELSE <<>>)
    \o (IF wsExists /\ "audio.m4a" \in wsFiles THEN <<Entry("audio", 0)>> ELSE <<>>)

\* Lines 756-797: the manifest, collected from what is on disk.
CollectFiles ==
    (IF wsExists /\ "audio.m4a" \in wsFiles THEN <<Entry("audio", 0)>> ELSE <<>>)
    \o (IF wsExists /\ "frames" \in wsFiles
        THEN [i \in 1..Len(Truncate(frameFiles, max_images)) |->
                 Entry("frame", Truncate(frameFiles, max_images)[i])]
        ELSE <<>>)
    \o (IF wsExists /\ note_txt = "content" THEN <<Entry("note", 0)>> ELSE <<>>)

\* Lines 715-799: credential check, SDK import, prompt token count, manifest.
upload_to_gemini ==
    /\ pc = "upload_to_gemini"
    /\ \E keySet \in BOOLEAN, sdkInstalled \in BOOLEAN, countOk \in BOOLEAN :
         IF ~keySet
         THEN /\ Raise(Error("upload", "API key not configured"))
              /\ UNCHANGED <<files_to_upload, effects>>
         ELSE IF ~sdkInstalled
         THEN /\ Raise(Error("upload", "ImportError"))
              /\ UNCHANGED <<files_to_upload, effects>>
         ELSE IF ~dry_run /\ ~countOk
         THEN /\ Raise(Error("upload", "count_tokens failed"))
              /\ effects' = effects \cup {"network:count_tokens"}
              /\ UNCHANGED files_to_upload
         ELSE /\ files_to_upload' = CollectFiles
              /\ effects' = effects
                    \cup (IF ~dry_run THEN {"network:count_tokens"} ELSE {})
                    \cup (IF wsExists /\ "audio.m4a" \in wsFiles
                          THEN {"subprocess:ffprobe_duration"} ELSE {})
                    \* line 785: the warning of the frame-count check
                    \cup (IF wsExists /\ "frames" \in wsFiles /\ Len(frameFiles) > max_images
                          THEN {"log:frames_exceed_limit"} ELSE {})
              /\ pc' = IF dry_run THEN StepAfter("upload_to_gemini") ELSE "upload_files"
              /\ exc' = exc
    /\ UNCHANGED <<cfgVars, preferred_date_source, prompt_file, target_dir, fsVars, tried,
                   upIdx, uploadOutcome, uploaded_files, content_parts, generation_config,
                   response,
                   retryVars, remoteVars, rollbacks, rollbackResult>>

\* Lines 813-823: where the handle of a successful upload is stored.
StoreHandle(up, entry) ==
    CASE entry.kind = "audio" ->
           [up EXCEPT !.keys = @ \cup {"audio"}, !.audio = <<Handle(entry)>>]
      [] entry.kind = "frame" ->
           [up EXCEPT !.keys = @ \cup {"frames"}, !.frames = Append(@, Handle(entry))]
      [] entry.kind = "note" ->
           [up EXCEPT !.keys = @ \cup {"note"}, !.note = <<Handle(entry)>>]

\* Lines 817-818 run before the upload call: the 'frames' key exists even when
\* the upload then fails.
StoreNothing(up, entry) ==
    IF entry.kind = "frame" THEN [up EXCEPT !.keys = @ \cup {"frames"}] ELSE up

\* An upload loop that gives up on the first failure of any kind.
UploadFailureFatal_Any(entry) == TRUE

\* Lines 832-837: which upload failures end the loop with a re-raise.
UploadFailureFatal(entry) == entry.kind = "audio"

\* Lines 811-837: one iteration of the upload loop.
upload_file ==
    /\ pc = "upload_files"
    /\ upIdx <= Len(files_to_upload)
    /\ LET entry == files_to_upload[upIdx] IN
       \E ok \in BOOLEAN :
         /\ effects' = effects \cup {"network:upload"}
         /\ uploadOutcome' = Append(uploadOutcome, ok)
         /\ upIdx' = upIdx + 1
         /\ IF ok
            THEN /\ uploaded_files' = StoreHandle(uploaded_files, entry)
                 /\ remote' = remote \cup {Handle(entry)}
                 /\ UNCHANGED <<pc, exc>>
            ELSE /\ uploaded_files' = StoreNothing(uploaded_files, entry)
                 /\ remote' = remote
                 /\ IF UploadFailureFatal(entry)
                    THEN Raise(Error("upload", "audio upload failed"))
                    ELSE UNCHANGED <<pc, exc>>
    /\ UNCHANGED <<cfgVars, preferred_date_source, prompt_file, target_dir, fsVars, tried,
                   files_to_upload, content_parts, generation_config, response, retryVars,
                   released, releaseFailed, rollbacks, rollbackResult>>

\* The prompt text, first element of the request.
PromptText == [name |-> Entry("prompt_text", 0)]

\* A request with the note ahead of the frames.
ContentParts_NoteBeforeFrames(up) ==
    <<PromptText>>
    \o (IF "audio" \in up.keys THEN up.audio ELSE <<>>)
    \o (IF "note" \in up.keys THEN up.note ELSE <<>>)
    \o (IF "frames" \in up.keys THEN up.frames ELSE <<>>)

\* Lines 842-853: the generation request built from the uploaded handles.
ContentParts(up) ==
    <<PromptText>>
    \o (IF "audio" \in up.keys THEN up.audio ELSE <<>>)
    \o (IF "frames" \in up.keys THEN up.frames ELSE <<>>)
    \o (IF "note" \in up.keys THEN up.note ELSE <<>>)

Max(a, b) == IF a > b THEN a ELSE b

\* int(x): the whole number next to x towards zero.
IntOf(x) == IF x >= 0 THEN Units(x \div 100) ELSE 0 - Units((0 - x) \div 100)

\* A validation that leaves top_k as configured.
get_parameter_defaults_KeepsTopK(defaults) ==
    [temperature |-> Max(0, Min(Units(2), defaults.temperature)),
     top_p |-> Max(0, Min(Units(1), defaults.top_p)),
     top_k |-> defaults.top_k,
     candidate_count |-> Max(Units(1), Min(Units(8), IntOf(defaults.candidate_count)))]

\* Config.get_parameter_defaults, lines 139-162.
get_parameter_defaults(defaults) ==
    [temperature |-> Max(0, Min(Units(2), defaults.temperature)),
     top_p |-> Max(0, Min(Units(1), defaults.top_p)),
     top_k |-> Units(64),
     candidate_count |-> Max(Units(1), Min(Units(8), IntOf(defaults.candidate_count)))]

\* Lines 839-880: the loop is over; build the request and enter the retry wrapper.
prepare_content ==
    /\ pc = "upload_files"
    /\ upIdx > Len(files_to_upload)
    /\ content_parts' = ContentParts(uploaded_files)
    /\ generation_config' = <<get_parameter_defaults(parameter_defaults)>>
    /\ pc' = "generate"
    /\ UNCHANGED <<cfgVars, preferred_date_source, prompt_file, target_dir, fsVars, tried,
                   files_to_upload, upIdx, uploadOutcome, uploaded_files, response,
                   retryVars, remoteVars, effects, exc, rollbacks, rollbackResult>>

\* ------------------------------------------ _retry_with_exponential_backoff
\* The 503 class of section 4.6: the disjunction of the four tests.
Retryable503(e) ==
    \/ e.status_code = "503"
    \/ e.message = "has503"
    \/ e.details = "has503"
    \/ (e.str503 /\ e.strUnavailable)

\* A chain in which the first attribute that exists decides alone.
Is503Error_FirstFieldDecides(e) ==
    IF e.status_code # "absent" THEN e.status_code = "503"
    ELSE IF e.message # "absent" THEN e.message = "has503"
    ELSE IF e.details # "absent" THEN e.details = "has503"
    ELSE e.str503 /\ e.strUnavailable

\* Lines 667-683: the if/elif chain that classifies the caught exception.
Is503Error(e) ==
    IF e.status_code = "503" THEN TRUE
    ELSE IF e.message = "has503" THEN TRUE
    ELSE IF e.details = "has503" THEN TRUE
    ELSE IF e.str503 /\ e.strUnavailable THEN TRUE
    ELSE FALSE

RECURSIVE Pow2(_)
Pow2(n) == IF n = 0 THEN 1 ELSE 2 * Pow2(n - 1)

\* A linear backoff.
BackoffDelay_Linear(a) == base_delay * (a + 1)

\* Line 687: delay = base_delay * (2 ** attempt)
BackoffDelay(a) == base_delay * Pow2(a)

\* A retry after the last attempt as well.
ShouldRetry_OneMore(a) == a <= max_retries

\* Line 686: whether a retryable failure of attempt a is retried.
ShouldRetry(a) == a < max_retries

\* A wrapper that retries every exception.
Retries_AnyError(is503, a) == ShouldRetry(a)

\* Lines 685-698: sleep and continue, as opposed to re-raise.
Retries(is503, a) == is503 /\ ShouldRetry(a)

\* What client.models.generate_content can return: a response with or without text.
Responses == {"text", "empty"}

\* Lines 662-683: one iteration of the retry loop up to line 683: func() is
\* called; it returns, or the exception it raises (one of Errs) is caught and
\* classified.
retry_call(Errs) ==
    /\ pc = "generate"
    /\ attempt <= max_retries
    /\ calls' = calls + 1
    /\ effects' = effects \cup {"network:generate_content"}
    /\ \/ \E r \in Responses :
            /\ response' = r
            /\ pc' = "save_response"
            /\ outcomes' = Append(outcomes, "ok")
            /\ UNCHANGED <<caught, is_503_error>>
       \/ \E e \in Errs :
            /\ caught' = <<e>>
            /\ is_503_error' = Is503Error(e)
            /\ pc' = "retry_except"
            /\ outcomes' = Append(outcomes, IF Retryable503(e) THEN "retryable" ELSE "fatal")
            /\ response' = response
    /\ UNCHANGED <<cfgVars, preferred_date_source, prompt_file, target_dir, fsVars, tried,
                   files_to_upload, upIdx, uploadOutcome, uploaded_files, content_parts,
                   generation_config,
                   attempt, sleeps, remoteVars, exc, rollbacks, rollbackResult>>

\* Lines 685-698: sleep and continue (the locals e and is_503_error end with
\* the except block), or re-raise the caught exception with the bare raise
\* (the frame is left as it is).
retry_except ==
    /\ pc = "retry_except"
    /\ IF Retries(is_503_error, attempt)
       THEN /\ sleeps' = Append(sleeps, BackoffDelay(attempt))
            /\ attempt' = attempt + 1
            /\ pc' = "generate"
            /\ caught' = <<>>
            /\ is_503_error' = FALSE
            /\ exc' = exc
       ELSE /\ Raise(ServiceError("upload", "generate_content", caught[1]))
            /\ UNCHANGED <<attempt, sleeps, caught, is_503_error>>
    /\ UNCHANGED <<cfgVars, preferred_date_source, prompt_file, target_dir, fsVars, tried,
                   upVars, calls, outcomes, remoteVars, effects, rollbacks, rollbackResult>>

\* A check that takes any response for a result.
TextAccepted_Any(r) == TRUE

\* Line 882: if response.text
TextAccepted(r) == r = "text"

\* Lines 882-889: persist a non-empty text, reject an empty one.
save_response ==
    /\ pc = "save_response"
    /\ IF TextAccepted(response)
       THEN /\ meeting_md' = "text"
            /\ effects' = effects \cup {"fs:meeting.md"}
            /\ pc' = "release"
            /\ exc' = exc
       ELSE /\ Raise(Error("upload", "empty response"))
            /\ UNCHANGED <<meeting_md, effects>>
    /\ UNCHANGED <<cfgVars, preferred_date_source, prompt_file, target_dir, wsExists,
                   wsFiles, frameFiles, note_txt, videoInWs, videoExists, tried,
                   upVars, retryVars, remoteVars, rollbacks, rollbackResult>>

\* Lines 898-912: the handles in the order their delete is issued.
ReleaseOrder(up) ==
    (IF "audio" \in up.keys THEN up.audio ELSE <<>>)
    \o (IF "frames" \in up.keys THEN up.frames ELSE <<>>)
    \o (IF "note" \in up.keys THEN up.note ELSE <<>>)

SeqRange(q) == {q[i] : i \in 1..Len(q)}

\* A release that tries the failed delete a second time.
ReleaseAttempted_RetryFailed(order, k) ==
    IF k < Len(order) THEN SubSeq(order, 1, k + 1) \o <<order[k + 1]>> ELSE order

\* Lines 897-916: one try block around all deletes: with k deletes succeeding
\* and delete k+1 raising, the handles after k+1 are not visited.
ReleaseAttempted(order, k) == SubSeq(order, 1, Min(k + 1, Len(order)))

\* A release whose failing delete leaves _upload_to_gemini as an exception.
AfterRelease_Propagates(deleteRaised) == IF deleteRaised THEN "except" ELSE "cleanup"

\* Lines 915-916: the except clause around the deletes logs a warning and
\* falls through to the end of _upload_to_gemini.
AfterRelease(deleteRaised) == "cleanup"

\* Lines 891-916: release of the uploaded handles after the text was saved.
release_uploaded ==
    /\ pc = "release"
    /\ IF uploaded_files.keys = {}
       THEN /\ pc' = StepAfter("upload_to_gemini")
            /\ UNCHANGED <<remoteVars, effects, exc>>
       ELSE LET order == ReleaseOrder(uploaded_files) IN
            \E k \in 0..Len(order) :
              /\ released' = ReleaseAttempted(order, k)
              /\ remote' = remote \ SeqRange(SubSeq(order, 1, k))
              /\ releaseFailed' = (k < Len(order))
              /\ effects' = IF Len(order) > 0
                            THEN effects \cup {"network:delete"} ELSE effects
              /\ pc' = AfterRelease(k < Len(order))
              /\ exc' = IF AfterRelease(k < Len(order)) = "except"
                        THEN <<Error("upload", "delete failed")>> ELSE exc
    /\ UNCHANGED <<cfgVars, preferred_date_source, prompt_file, target_dir, fsVars, tried,
                   upVars, retryVars, rollbacks, rollbackResult>>

\* ------------------------------------------------------- step 10: _cleanup
\* A cleanup that removes the audio file along with the frames.
CleanupDeletes_AlsoAudio(files) == files \ {"frames", "audio.m4a"}

\* Lines 926-927: shutil.rmtree(self.frames_dir)
CleanupDeletes(files) == files \ {"frames"}

\* Lines 309-313 and 920-933.
cleanup ==
    /\ pc = "cleanup"
    /\ IF no_cleanup \/ dry_run \/ ~("frames" \in wsFiles)
       THEN /\ pc' = StepAfter("cleanup")
            /\ UNCHANGED <<exc, wsFiles, frameFiles, effects>>
       ELSE \E rmtreeOk \in BOOLEAN :
            IF rmtreeOk
            THEN /\ wsFiles' = CleanupDeletes(wsFiles)
                 /\ frameFiles' = <<>>
                 /\ effects' = effects \cup {"fs:rmtree_frames"}
                 /\ pc' = StepAfter("cleanup")
                 /\ exc' = exc
            ELSE /\ Raise(Error("cleanup", "rmtree(frames) failed"))
                 /\ UNCHANGED <<wsFiles, frameFiles, effects>>
    /\ UNCHANGED <<cfgVars, preferred_date_source, prompt_file, target_dir, wsExists,
                   meeting_md, note_txt, videoInWs, videoExists, tried,
                   upVars, retryVars, remoteVars, rollbacks, rollbackResult>>

\* -------------------------------- run()'s except clause: _cleanup_on_failure
\* A rollback that logs and deletes nothing.
RollbackDeletes_Nothing(td, exists, rmtreeOk) == FALSE

\* A rollback that spares a directory the user named with --directory.
RollbackDeletes_TimestampOnly(td, exists, rmtreeOk) == td = "timestamp" /\ exists /\ rmtreeOk

\* Line 708: "".exists() raises AttributeError, which line 712 swallows.
RollbackDeletes(td, exists, rmtreeOk) == td # "" /\ exists /\ rmtreeOk

\* The branch taken: target_dir still "", no such directory, rmtree done, rmtree raised.
RollbackBranch(td, exists, rmtreeOk) ==
    CASE td = "" -> "no_target_dir"
      [] ~exists -> "no_directory"
      [] rmtreeOk -> "removed"
      [] OTHER -> "rmtree_failed"

\* A rollback whose own exceptions replace the error of the stage.
Reraised_RollbackError(e, branch) ==
    IF branch \in {"no_target_dir", "rmtree_failed"} THEN Error("rollback", branch) ELSE e

\* Lines 707-713 and 319: the try/except of _cleanup_on_failure keeps its own
\* exceptions, and the bare raise of run() re-raises the exception it caught.
Reraised(e, branch) == e

\* Lines 315-319 and 703-713: log, roll back, re-raise.
cleanup_on_failure ==
    /\ pc = "except"
    /\ rollbacks' = rollbacks + 1
    /\ \E rmtreeOk \in BOOLEAN :
         /\ rollbackResult' = RollbackBranch(target_dir, wsExists, rmtreeOk)
         /\ exc' = <<Reraised(exc[1], RollbackBranch(target_dir, wsExists, rmtreeOk))>>
         /\ IF RollbackDeletes(target_dir, wsExists, rmtreeOk)
            THEN /\ wsExists' = FALSE
                 /\ wsFiles' = {}
                 /\ frameFiles' = <<>>
                 /\ meeting_md' = "absent"
                 /\ note_txt' = "absent"
                 /\ videoExists' = (videoExists /\ ~videoInWs)
                 /\ effects' = effects \cup {"fs:rmtree"}
            ELSE UNCHANGED <<wsExists, wsFiles, frameFiles, meeting_md, note_txt,
                             videoExists, effects>>
    /\ pc' = "raised"
    /\ UNCHANGED <<cfgVars, preferred_date_source, prompt_file, target_dir, videoInWs,
                   tried, upVars, retryVars, remoteVars>>

\* ------------------------------------------------------------ specification
NextWith(Errs) ==
    \/ extract_datetime
    \/ create_target_directory
    \/ convert_video
    \/ extract_audio
    \/ extract_frames
    \/ create_meeting_md
    \/ select_and_copy_prompt
    \/ create_note_txt
    \/ upload_to_gemini
    \/ upload_file
    \/ prepare_content
    \/ retry_call(Errs)
    \/ retry_except
    \/ save_response
    \/ release_uploaded
    \/ cleanup
    \/ cleanup_on_failure

\* Exceptions of the generation call in the whole-pipeline specification: one
\* retryable by its status code, one retryable by its string form, one plain.
PipelineErrors ==
    {[PlainShape EXCEPT !.status_code = "503"],
     [PlainShape EXCEPT !.str503 = TRUE, !.strUnavailable = TRUE],
     PlainShape}

Next == NextWith(PipelineErrors)

Spec == Init /\ [][Next]_vars

\* The retry wrapper under every exception shape, in the default configuration.
RetryNext == NextWith(ErrorShapes)

RetrySpec == RetryInit /\ [][RetryNext]_vars

\* Runs over every date-source setting.
DateSpec == DateInit /\ [][Next]_vars

\* Runs over every set of parameter defaults.
ParamSpec == ParamInit /\ [][Next]_vars

\* ================================================================ properties
Failed == pc = "raised"
Succeeded == pc = "done"
failedStage == exc[1].stage

\* C1 as stated: whenever a stage raised, the rollback ran exactly once before
\* the exception reached the caller, and afterwards the workspace directory
\* (once _create_target_directory has set it) no longer exists.
C1_AsStated ==
    /\ Failed => rollbacks = 1
    /\ ~Failed => rollbacks = 0
    /\ (Failed /\ target_dir # "") => ~wsExists

\* C1, amended: whenever a stage raised, the rollback ran exactly once before
\* the exception reached the caller (and never otherwise); afterwards the
\* workspace directory and everything in it is gone, unless the rmtree of the
\* rollback itself raised, which _cleanup_on_failure logs and swallows.
C1_RollbackOnFailure ==
    /\ Failed => rollbacks = 1
    /\ ~Failed => rollbacks = 0
    /\ pc = "except" => exc # <<>>
    /\ (Failed /\ target_dir # "" /\ rollbackResult # "rmtree_failed")
          => (~wsExists /\ wsFiles = {} /\ meeting_md = "absent" /\ note_txt = "absent")

\* Frame extraction failed after audio extraction had succeeded; the rollback
\* ran once and the workspace is gone.
C1_Witness ==
    /\ Failed
    /\ failedStage = "frames"
    /\ "subprocess:ffmpeg_audio" \in effects
    /\ rollbacks = 1
    /\ rollbackResult = "removed"
    /\ ~wsExists

\* C2 as stated: the input video exists in every state of every run.
C2_VideoPreserved == videoExists

\* ------------------------------------------------------- the retry wrapper
Last(q) == q[Len(q)]
AllRetryable(q, n) == \A i \in 1..n : q[i] = "retryable"
RaisedByGeneration ==
    pc \in {"except", "raised"} /\ exc[1].what = "generate_content"

\* C3: when func() fails with a retryable error on its first k attempts
\* (0 <= k <= max_retries) and then succeeds, the wrapper has slept exactly k
\* times, base_delay * 2^i seconds for i = 0..k-1 in that order, has called
\* func() exactly k+1 times and has returned the value of call k+1.
C3_BackoffSchedule ==
    (outcomes # <<>> /\ Last(outcomes) = "ok"
        /\ AllRetryable(outcomes, Len(outcomes) - 1)) =>
    LET k == Len(outcomes) - 1 IN
    /\ k <= max_retries
    /\ calls = k + 1
    /\ sleeps = [i \in 1..k |-> base_delay * 2^(i - 1)]
    /\ response \in Responses
    /\ pc \notin {"generate", "retry_except"}
    /\ ~RaisedByGeneration

\* Three retryable failures, then success: sleeps of 60, 120 and 240 seconds.
C3_Witness ==
    /\ pc = "save_response"
    /\ outcomes = <<"retryable", "retryable", "retryable", "ok">>
    /\ sleeps = <<60, 120, 240>>
    /\ calls = 4

\* C4: once func() raised a non-retryable error (on the first attempt or after
\* earlier retryable failures) the wrapper re-raises that same error: there is
\* one sleep per earlier failure and none after it, func() is not called again,
\* and a non-retryable error on the first attempt leaves zero sleeps.
C4_NonRetryablePropagates ==
    /\ \A i \in 1..(Len(outcomes) - 1) : outcomes[i] = "retryable"
    /\ (outcomes # <<>> /\ Last(outcomes) = "fatal") =>
          /\ calls = Len(outcomes)
          /\ Len(sleeps) = Len(outcomes) - 1
          /\ (Len(outcomes) = 1 => sleeps = <<>>)
          /\ pc \in {"retry_except", "except", "raised"}
          /\ caught # <<>> /\ ~Retryable503(caught[1])
          /\ pc \in {"except", "raised"} =>
                exc = <<ServiceError("upload", "generate_content", caught[1])>>

\* A non-retryable error on the third call, after two retryable failures.
C4_Witness ==
    /\ pc = "except"
    /\ outcomes = <<"retryable", "retryable", "fatal">>
    /\ sleeps = <<60, 120>>
    /\ calls = 3
    /\ exc[1].shape = caught[1]

\* C5: the wrapper terminates: func() is called at most max_retries+1 times
\* and the loop can always take its next step; when every attempt fails with
\* a retryable error there are exactly max_retries sleeps (none after the last
\* attempt) and the error of the last attempt is raised.
C5_BoundedRetries ==
    /\ calls <= max_retries + 1
    /\ attempt <= max_retries
    /\ Len(sleeps) = attempt
    /\ calls \in {attempt, attempt + 1}
    /\ pc = "generate" => ENABLED retry_call(ErrorShapes)
    /\ pc = "retry_except" => ENABLED retry_except
    /\ (Len(outcomes) = max_retries + 1 /\ AllRetryable(outcomes, max_retries + 1)) =>
          /\ Len(sleeps) = max_retries
          /\ pc \in {"retry_except", "except", "raised"}
          /\ caught # <<>> /\ Retryable503(caught[1])
          /\ pc \in {"except", "raised"} =>
                exc = <<ServiceError("upload", "generate_content", caught[1])>>

\* Six retryable failures: five sleeps, then the sixth error is raised.
C5_Witness ==
    /\ pc = "except"
    /\ calls = max_retries + 1
    /\ AllRetryable(outcomes, max_retries + 1)
    /\ sleeps = <<60, 120, 240, 480, 960>>
    /\ Retryable503(exc[1].shape)

\* C6: the classification computed by the wrapper is the plain disjunction of
\* the four tests (status_code = 503, "503" in message, "503" in details,
\* "503" and "UNAVAILABLE" in str(e)), whatever fields the exception has.
C6_Classification ==
    caught # <<>> => (is_503_error <=> Retryable503(caught[1]))

\* An exception whose status_code exists and is not 503, whose message exists
\* without "503", and which is retryable by its details alone.
C6_Witness ==
    /\ pc = "retry_except"
    /\ caught[1].status_code = "500"
    /\ caught[1].message = "no503"
    /\ caught[1].details = "has503"
    /\ ~(caught[1].str503 /\ caught[1].strUnavailable)
    /\ is_503_error

\* ------------------------------------------------ upload, request, release
\* The handles the run obtained, in the order of their release.
UploadedHandles == SeqRange(ReleaseOrder(uploaded_files))

\* C7 as stated: when a real run has ended, however generation went, a delete
\* was attempted for every handle the run had uploaded.
C7_ReleaseWhateverTheOutcome ==
    ((Succeeded \/ Failed) /\ ~dry_run) => UploadedHandles \subseteq SeqRange(released)

\* C8: a delete that raises is not escalated: _upload_to_gemini returns
\* normally to run() with the text saved, no rollback is caused by it (an
\* exception in flight afterwards is the one the success cleanup raised
\* itself), and when the run ends as a success meeting.md holds the text; with
\* cleanup disabled such a run always gets there.
C8_ReleaseFailureNotEscalated ==
    releaseFailed =>
       /\ pc \in {"cleanup", "done", "except", "raised"}
       /\ pc \in {"except", "raised"} => failedStage = "cleanup"
       /\ pc \in {"cleanup", "done", "except"} => (meeting_md = "text" /\ rollbacks = 0)
       /\ no_cleanup => pc \in {"cleanup", "done"}

\* A run that ended as a success with meeting.md written although a delete raised.
C8_Witness ==
    /\ releaseFailed
    /\ Succeeded
    /\ meeting_md = "text"
    /\ rollbacks = 0
    /\ remote # {}

\* The manifest entries whose upload was attempted and succeeded.
UploadOk(entry) ==
    \E i \in 1..Len(uploadOutcome) : files_to_upload[i] = entry /\ uploadOutcome[i]
OkOfKind(kind) ==
    LET Keep(entry) == entry.kind = kind /\ UploadOk(entry)
        kept == SelectSeq(files_to_upload, Keep)
    IN  [i \in 1..Len(kept) |-> Handle(kept[i])]

\* C9: a failed audio upload aborts the run at once (the error propagates,
\* nothing more is uploaded, generation is never called); a failed frame or
\* note upload aborts nothing: the loop goes on to the end of the manifest, and
\* generation is called with exactly the handles of the successful uploads.
C9_UploadFailures ==
    /\ \A i \in 1..Len(uploadOutcome) :
          (files_to_upload[i].kind = "audio" /\ ~uploadOutcome[i]) =>
             /\ pc \in {"except", "raised"}
             /\ exc = <<Error("upload", "audio upload failed")>>
             /\ Len(uploadOutcome) = i
             /\ calls = 0
             /\ content_parts = <<>>
    /\ \A i \in 1..Len(uploadOutcome) :
          (files_to_upload[i].kind # "audio" /\ ~uploadOutcome[i]) =>
             \/ pc = "upload_files"
             \/ Len(uploadOutcome) = Len(files_to_upload)
    /\ (pc \in {"except", "raised"} /\ failedStage = "upload"
           /\ exc[1].what = "audio upload failed") =>
          files_to_upload[Len(uploadOutcome)].kind = "audio"
    /\ calls > 0 =>
          /\ Len(uploadOutcome) = Len(files_to_upload)
          /\ SeqRange(Tail(content_parts)) =
                {Handle(files_to_upload[i]) :
                    i \in {j \in 1..Len(files_to_upload) : uploadOutcome[j]}}

\* Generation was called although an upload had failed, and an entry after the
\* failed one was uploaded.
C9_Witness ==
    /\ calls > 0
    /\ \E i, j \in 1..Len(uploadOutcome) : i < j /\ ~uploadOutcome[i] /\ uploadOutcome[j]

\* C10: the request is the prompt text, then the audio handle if audio was
\* uploaded, then the handles of the uploaded frames in manifest order, then
\* the note handle if the note was uploaded; nothing else, nothing twice.
C10_RequestOrder ==
    content_parts # <<>> =>
       /\ content_parts = <<PromptText>> \o OkOfKind("audio") \o OkOfKind("frame")
                             \o OkOfKind("note")
       /\ \A i, j \in 1..Len(content_parts) :
             i # j => content_parts[i] # content_parts[j]
       /\ Len(OkOfKind("audio")) <= 1
       /\ Len(OkOfKind("note")) <= 1

\* A request of prompt, audio and two frames, the note upload having failed.
C10_Witness ==
    /\ pc = "generate"
    /\ Len(content_parts) = 4
    /\ Len(OkOfKind("frame")) = 2
    /\ Len(files_to_upload) = 4
    /\ ~uploadOutcome[4]

\* --------------------------------------------------- the generation result
\* C11: a non-empty text is written to meeting.md and the upload/generation
\* stage does not fail after it; an empty text raises the fatal error "empty
\* response", is not written, and the run ends as a failure with one rollback.
C11_ResultPersistedOrFatal ==
    /\ (response = "text" /\ pc # "save_response") =>
          /\ ~(pc \in {"except", "raised"} /\ failedStage = "upload")
          /\ pc \in {"release", "cleanup", "done", "except"} => meeting_md = "text"
    /\ response = "empty" =>
          /\ meeting_md # "text"
          /\ pc \in {"save_response", "except", "raised"}
          /\ pc # "save_response" => exc = <<Error("upload", "empty response")>>
          /\ Failed => rollbacks = 1

\* A run that failed on an empty response; the rollback removed the workspace.
C11_Witness ==
    /\ Failed
    /\ response = "empty"
    /\ exc = <<Error("upload", "empty response")>>
    /\ rollbacks = 1
    /\ meeting_md = "absent"

\* ------------------------------------------------------ datetime resolution
\* The order section 4.1 describes: the preferred source, then the others in
\* the order metadata, file_mtime, manual.
FixedOrder == <<"metadata", "file_mtime", "manual">>
FallbackOrder(p) ==
    LET Other(src) == src # p IN <<p>> \o SelectSeq(FixedOrder, Other)
IsPrefix(q, r) == Len(q) <= Len(r) /\ SubSeq(r, 1, Len(q)) = q
DatetimeResolved == pc \notin {"extract_datetime", "except", "raised"}
DatetimeFailed == pc \in {"except", "raised"} /\ failedStage = "datetime"

\* C12 as stated: for a preferred source among metadata, file_mtime and manual,
\* once _extract_datetime is over the sources attempted are, in order, the
\* preferred one and then the remaining ones in the order metadata,
\* file_mtime, manual, up to the first that succeeds; it fails only when all
\* three were attempted.
C12_FallbackOrder ==
    (pc # "extract_datetime" /\ date_source_setting \in valid_sources) =>
       /\ tried # <<>>
       /\ tried[1] = date_source_setting
       /\ IsPrefix(tried, FallbackOrder(date_source_setting))
       /\ DatetimeFailed => tried = FallbackOrder(date_source_setting)

\* C13: whatever the setting (an invalid one included), no datetime source is
\* attempted twice in a run: the sources attempted are pairwise distinct
\* members of metadata, file_mtime, manual, and none is attempted before or
\* after _extract_datetime.
C13_EachSourceOnce ==
    /\ \A i, j \in 1..Len(tried) : i # j => tried[i] # tried[j]
    /\ SeqRange(tried) \subseteq valid_sources
    /\ Len(tried) <= 3
    /\ pc = "extract_datetime" => tried = <<>>

\* An invalid setting, metadata and file_mtime failed: three sources, once each.
C13_Witness ==
    /\ date_source_setting = "bogus"
    /\ tried = <<"metadata", "file_mtime", "manual">>
    /\ DatetimeResolved

\* C14: in a dry run the user is never asked and datetime resolution never
\* fails; in a real run it fails only in the manual source, after the user was
\* asked.
C14_ManualIsTheOnlyFatalSource ==
    /\ dry_run => (~DatetimeFailed /\ "tty:questionary" \notin effects)
    /\ DatetimeFailed =>
          /\ ~dry_run
          /\ tried # <<>> /\ Last(tried) = "manual"
          /\ "tty:questionary" \in effects
          /\ exc = <<Error("datetime", "manual input rejected")>>

\* A dry run that reached the manual source after metadata and file_mtime
\* failed, and went on to the next stage.
C14_Witness ==
    /\ dry_run
    /\ tried = <<"metadata", "file_mtime", "manual">>
    /\ pc = "create_target_directory"
    /\ "tty:questionary" \notin effects

\* ------------------------------------------------------------ limit checks
Uploading == pc \in {"upload_files", "generate", "retry_except", "save_response", "release"}
ManifestFrames ==
    LET IsFrame(entry) == entry.kind = "frame" IN SelectSeq(files_to_upload, IsFrame)

\* C15: with M frames in frames/ and a ceiling of N images, the manifest holds
\* the first N frames in collection order and the warning is logged when
\* M > N, and all M frames in collection order (no warning) when M <= N; no
\* frame beyond the N-th is ever uploaded.
C15_FrameTruncation ==
    /\ Uploading =>
          LET M == Len(frameFiles)
              N == max_images
          IN  /\ M > N => /\ ManifestFrames = [i \in 1..N |-> Entry("frame", frameFiles[i])]
                          /\ "log:frames_exceed_limit" \in effects
              /\ M <= N => /\ ManifestFrames = [i \in 1..M |-> Entry("frame", frameFiles[i])]
                           /\ "log:frames_exceed_limit" \notin effects
    /\ \A h \in remote \cup SeqRange(uploaded_files.frames) \cup SeqRange(released) :
          h.name.kind = "frame" => h.name.n <= max_images

\* Two frames discovered, a ceiling of one: only the first was uploaded.
C15_Witness ==
    /\ pc = "generate"
    /\ Len(frameFiles) = 2
    /\ max_images = 1
    /\ uploaded_files.frames = <<Handle(Entry("frame", 1))>>
    /\ "log:frames_exceed_limit" \in effects

\* C16 as stated: no exception in flight in run() comes from the limit checks
\* of _upload_to_gemini: neither a violated limit nor a failing measurement
\* fails the run.
C16_LimitChecksNeverAbort ==
    pc \in {"except", "raised"} =>
       exc[1] \notin {Error("upload", "count_tokens failed"),
                      Error("upload", "limit exceeded")}

\* ------------------------------------------------------------- transcoding
ConvertFailed == pc \in {"except", "raised"} /\ failedStage = "convert"

\* C17: in a real run _convert_video returns normally only with exit status 0
\* and a non-empty small.mp4 in place; a non-zero exit, a missing output and
\* an output of zero bytes each raise, and after a failed transcode the audio
\* extraction is never started.
C17_TranscodeValidation ==
    /\ (~dry_run /\ pc = "extract_audio") =>
          /\ "subprocess:HandBrakeCLI" \in effects
          /\ "small.mp4" \in wsFiles
          /\ "small.mp4 (0 bytes)" \notin wsFiles
    /\ "small.mp4 (0 bytes)" \in wsFiles =>
          (ConvertFailed /\ exc = <<Error("convert", "exit0_empty")>>)
    /\ (~dry_run /\ pc \notin {"extract_datetime", "create_target_directory",
                              "convert_video", "except", "raised"}) =>
          "small.mp4" \in wsFiles
    /\ ConvertFailed =>
          /\ exc[1].what \in {"preset file not found", "exit_nonzero",
                              "exit0_missing", "exit0_empty"}
          /\ "subprocess:ffmpeg_audio" \notin effects
          /\ "audio.m4a" \notin wsFiles

\* HandBrakeCLI exited 0 and left a file of zero bytes: the run failed in the
\* transcode stage and ffmpeg was never started.
C17_Witness ==
    /\ ~dry_run
    /\ Failed
    /\ exc = <<Error("convert", "exit0_empty")>>
    /\ "subprocess:HandBrakeCLI" \in effects
    /\ "subprocess:ffmpeg_audio" \notin effects

\* ------------------------------------------ configuration errors, dry runs
\* The external tool processes and the calls to the service.
ExternalCalls ==
    {"subprocess:ffprobe_metadata", "subprocess:HandBrakeCLI", "subprocess:ffmpeg_audio",
     "subprocess:ffmpeg_frames", "subprocess:ffprobe_duration", "network:count_tokens",
     "network:upload", "network:generate_content", "network:delete"}
ConfigErrors == {Error("upload", "API key not configured"),
                 Error("convert", "preset file not found")}

\* C18 as stated: when a configuration error (missing credential, missing
\* preset file) is in flight, no external tool process and no network call
\* has been executed.
C18_ConfigErrorsBeforeExternalCalls ==
    (pc \in {"except", "raised"} /\ exc[1] \in ConfigErrors) =>
       effects \cap ExternalCalls = {}

\* C19 as stated: in a dry run nothing happens outside the process: no
\* subprocess, no network call, no file or directory created, written or
\* deleted (a logged warning is no side effect).
C19_DryRunNoSideEffects ==
    dry_run => (effects \subseteq {"log:frames_exceed_limit", "log:extracting_frames"}
                /\ videoExists)

\* C20 as stated: in a dry run no stage raises, whatever the configuration.
C20_DryRunSucceeds ==
    dry_run => pc \notin {"except", "raised"}

\* ---------------------------------------------------------- success cleanup
\* C21: the frames directory is removed by the success cleanup only in a real
\* run with cleanup enabled whose earlier stages all succeeded (the text is in
\* meeting.md, no rollback); the step of the success cleanup changes nothing
\* but the frames directory: every other entry of the workspace, meeting.md,
\* note.txt and the input video are as before; with no_cleanup a successful
\* run still has the frames directory it extracted.
C21_SuccessCleanup ==
    /\ []("fs:rmtree_frames" \in effects =>
             /\ ~no_cleanup /\ ~dry_run
             /\ Succeeded
             /\ meeting_md = "text"
             /\ rollbacks = 0
             /\ "frames" \notin wsFiles)
    /\ []((Succeeded /\ no_cleanup /\ "subprocess:ffmpeg_frames" \in effects) =>
             "frames" \in wsFiles)
    /\ [][(pc = "cleanup" /\ pc' = "done") =>
             /\ wsFiles' \ {"frames"} = wsFiles \ {"frames"}
             /\ wsExists' = wsExists
             /\ meeting_md' = meeting_md
             /\ note_txt' = note_txt
             /\ videoExists' = videoExists
             /\ ("frames" \in wsFiles /\ "frames" \notin wsFiles') =>
                   (~no_cleanup /\ ~dry_run)]_vars

\* A successful real run after whose cleanup the frames are gone and the video,
\* the audio, the prompt and the log are in place.
C21_Witness ==
    /\ Succeeded
    /\ "fs:rmtree_frames" \in effects
    /\ {"small.mp4", "audio.m4a", "prompt.txt", "process.log"} \subseteq wsFiles
    /\ "frames" \notin wsFiles
    /\ meeting_md = "text"

\* C22 as stated: after a failed run whose rollback has completed, the process
\* log that was written during the run still exists.
C22_LogPreserved ==
    (Failed /\ "fs:process.log" \in effects) => "process.log" \in wsFiles

\* ------------------------------------------------------ parameter defaults
\* min(hi, max(lo, x)), the clamp the claim names.
Clamp(lo, hi, x) == IF x < lo THEN lo ELSE IF x > hi THEN hi ELSE x
\* The whole number of units that is not above x and less than one unit below it.
WholeBelow(x) ==
    CHOOSE w \in {Units(n) : n \in -10..10} : w <= x /\ x < w + Units(1)

\* C23 as stated: what get_parameter_defaults returned is, parameter by
\* parameter, the configured value clamped to [0, 2], [0, 1] and [1, 8], and
\* top_k is 64; a value inside its range comes back unchanged.
C23_AsStated ==
    generation_config # <<>> =>
       LET g == generation_config[1]
           d == parameter_defaults
       IN  /\ g.temperature = Clamp(0, Units(2), d.temperature)
           /\ g.top_p = Clamp(0, Units(1), d.top_p)
           /\ g.candidate_count = Clamp(Units(1), Units(8), d.candidate_count)
           /\ g.top_k = Units(64)

\* C23, amended: temperature and top_p are the configured values clamped to
\* [0, 2] and [0, 1], top_k is 64, and candidate_count is the configured value
\* cut down to a whole number and then clamped to [1, 8]; each result depends
\* on its own input only, and a value inside its range comes back unchanged
\* (a candidate_count when it is whole).
C23_ParameterClamping ==
    generation_config # <<>> =>
       LET g == generation_config[1]
           d == parameter_defaults
       IN  /\ g.temperature = Clamp(0, Units(2), d.temperature)
           /\ g.top_p = Clamp(0, Units(1), d.top_p)
           /\ g.candidate_count = Clamp(Units(1), Units(8), WholeBelow(d.candidate_count))
           /\ g.top_k = Units(64)
           /\ (0 <= d.temperature /\ d.temperature <= Units(2)) =>
                 g.temperature = d.temperature
           /\ (0 <= d.top_p /\ d.top_p <= Units(1)) => g.top_p = d.top_p
           /\ d.candidate_count \in {Units(n) : n \in 1..8} =>
                 g.candidate_count = d.candidate_count

\* temperature 2.5, top_p -0.1, top_k 100 and candidate_count 2.5 came back
\* as 2, 0, 64 and 2.
C23_Witness ==
    /\ parameter_defaults = [temperature |-> 250, top_p |-> -10, top_k |-> Units(100),
                             candidate_count |-> 250]
    /\ generation_config = <<[temperature |-> Units(2), top_p |-> 0, top_k |-> Units(64),
                              candidate_count |-> Units(2)]>>
    /\ pc = "generate"

\* ------------------------------------------------ rollback versus cleanup
\* The generated text has been written to meeting.md.
TextPersisted == response = "text" /\ pc # "save_response"

\* C24 as stated: no run executes both the success cleanup and the failure
\* rollback, and once the text was persisted, meeting.md and the normalized
\* video stay in place whatever follows.
C24_RollbackAndCleanupDisjoint ==
    /\ rollbacks > 0 => failedStage # "cleanup"
    /\ TextPersisted => (meeting_md = "text" /\ "small.mp4" \in wsFiles)

\* --------------------------------------------------------- order of stages
\* The position of a statement of run() in the order of section 2.
StageOf(p) ==
    CASE p = "extract_datetime" -> 1
      [] p = "create_target_directory" -> 2
      [] p = "convert_video" -> 3
      [] p = "extract_audio" -> 4
      [] p = "extract_frames" -> 5
      [] p = "create_meeting_md" -> 6
      [] p = "select_and_copy_prompt" -> 7
      [] p = "create_note_txt" -> 8
      [] p = "upload_to_gemini" -> 9
      [] p = "upload_files" -> 10
      [] p \in {"generate", "retry_except"} -> 11
      [] p = "save_response" -> 12
      [] p = "release" -> 13
      [] p = "cleanup" -> 14
      [] p = "done" -> 15
      [] OTHER -> 16

\* C25: control moves through the stages in the fixed order, one stage at a
\* time and never back (only the generation call is re-entered, a dry run
\* leaves _upload_to_gemini before the upload), a stage is entered only while
\* no exception is in flight, the external effects appear in the same order,
\* and before _create_target_directory has set the workspace nothing but the
\* datetime sources has been touched.
C25_StageOrder ==
    /\ [][pc' # pc =>
            IF pc' \in {"except", "raised"}
            THEN /\ exc' # <<>>
                 /\ pc' = "raised" => pc = "except"
            ELSE /\ exc = <<>> /\ exc' = <<>>
                 /\ \/ StageOf(pc') = StageOf(pc) + 1
                    \/ {pc, pc'} = {"generate", "retry_except"}
                    \/ dry_run /\ pc = "upload_to_gemini" /\ pc' = "cleanup"]_vars
    /\ [](target_dir = "" =>
             /\ pc \in {"extract_datetime", "create_target_directory", "except", "raised"}
             /\ effects \subseteq {"subprocess:ffprobe_metadata", "tty:questionary"})
    /\ []("subprocess:ffmpeg_audio" \in effects => "subprocess:HandBrakeCLI" \in effects)
    /\ []("subprocess:ffmpeg_frames" \in effects => "subprocess:ffmpeg_audio" \in effects)
    /\ []("network:count_tokens" \in effects =>
             {"subprocess:ffmpeg_audio", "fs:prompt.txt", "fs:note.txt"} \subseteq effects)
    /\ []("network:upload" \in effects => "network:count_tokens" \in effects)
    /\ []("network:generate_content" \in effects => "network:count_tokens" \in effects)
    /\ []("fs:rmtree_frames" \in effects => "network:generate_content" \in effects)

\* A successful real run in which every stage did its work.
C25_Witness ==
    /\ Succeeded
    /\ {"subprocess:HandBrakeCLI", "subprocess:ffmpeg_audio", "subprocess:ffmpeg_frames",
        "network:count_tokens", "network:upload", "network:generate_content",
        "fs:rmtree_frames"} \subseteq effects
    /\ sleeps # <<>>

\* ------------------------------------------------------------- repetition
Distinct(q) == \A i, j \in 1..Len(q) : i # j => q[i] # q[j]

\* C26: nothing but the generation call is repeated: when a tool stage is about
\* to start, its tool has not run before in this run; manifest entry i is
\* uploaded by iteration i of the loop and by no other (a failed upload is
\* never on the service later); no handle is released twice.
C26_OnlyGenerationRepeats ==
    /\ pc = "convert_video" => "subprocess:HandBrakeCLI" \notin effects
    /\ pc = "extract_audio" => "subprocess:ffmpeg_audio" \notin effects
    /\ pc = "extract_frames" => "subprocess:ffmpeg_frames" \notin effects
    /\ Distinct(files_to_upload)
    /\ Len(uploadOutcome) <= Len(files_to_upload)
    /\ pc = "upload_files" => Len(uploadOutcome) = upIdx - 1
    /\ \A i \in 1..Len(uploadOutcome) :
          ~uploadOutcome[i] => Handle(files_to_upload[i]) \notin remote
    /\ Distinct(released)
    /\ pc \in {"upload_files", "generate", "retry_except", "save_response", "release"} =>
          released = <<>>
    /\ (pc \in {"except", "raised"} /\ failedStage \in {"convert", "audio", "frames"}) =>
          calls = 0

\* A successful run that called generation more than once, after an upload
\* had failed, and in whose release a delete failed.
C26_Witness ==
    /\ Succeeded
    /\ calls > 1
    /\ \E i \in 1..Len(uploadOutcome) : ~uploadOutcome[i]
    /\ releaseFailed
    /\ released # <<>>

\* ------------------------------------------------------ audio, release
\* C27 as stated: when generation has been called, the manifest held the audio
\* entry and the request holds the audio handle.
C27_AudioMandatory ==
    calls > 0 =>
       /\ Entry("audio", 0) \in SeqRange(files_to_upload)
       /\ Handle(Entry("audio", 0)) \in SeqRange(content_parts)

\* C28 as stated: when a delete failed, a delete has still been attempted for
\* every handle the run had uploaded.
C28_ReleasePerHandle ==
    (releaseFailed /\ pc # "release") => UploadedHandles \subseteq SeqRange(released)

\* ----------------------------------------------------------------- rollback
\* C29: the rollback always returns to run(), which re-raises the exception of
\* the failed stage unchanged: the step out of the except clause ends the run
\* with the same exception in flight, whether target_dir was still unset, the
\* directory did not exist, was removed, or could not be removed.
C29_RollbackNeverRaises ==
    /\ [][pc = "except" => (pc' = "raised" /\ exc' = exc /\ rollbacks' = 1)]_vars
    /\ [](Failed =>
             /\ exc # <<>>
             /\ failedStage \in {"datetime", "mkdir", "convert", "audio", "frames",
                                 "meeting_md", "prompt", "note", "upload", "cleanup"}
             /\ rollbackResult \in {"no_target_dir", "no_directory", "removed",
                                    "rmtree_failed"}
             /\ (rollbackResult = "no_target_dir") <=> (failedStage = "datetime")
             /\ rollbackResult = "rmtree_failed" => wsExists)

\* The manual date was rejected before any workspace was set: the rollback
\* found target_dir unset and the datetime error reached the caller.
C29_Witness ==
    /\ Failed
    /\ target_dir = ""
    /\ rollbackResult = "no_target_dir"
    /\ exc = <<Error("datetime", "manual input rejected")>>
    /\ rollbacks = 1

KindRank(kind) == CASE kind = "audio" -> 1 [] kind = "frame" -> 2 [] kind = "note" -> 3
AudioUploadFailed ==
    pc \in {"except", "raised"} /\ exc = <<Error("upload", "audio upload failed")>>

\* C31: the manifest lists the audio first, then the frames, then the note;
\* the uploads are issued one per entry in that order; so when the upload of
\* the audio fails, it was the first and only upload of the run: no remote
\* handle exists, none is stored, and nothing is or has to be released.
C31_AudioFailureLeavesNothing ==
    /\ \A i \in 1..Len(files_to_upload) :
         /\ files_to_upload[i].kind = "audio" => i = 1
         /\ \A j \in 1..Len(files_to_upload) :
              i <= j => KindRank(files_to_upload[i].kind) <= KindRank(files_to_upload[j].kind)
    /\ Len(uploadOutcome) = upIdx - 1
    /\ Len(uploadOutcome) <= Len(files_to_upload)
    /\ \A h \in remote :
         \E i \in 1..Len(uploadOutcome) : uploadOutcome[i] /\ h = Handle(files_to_upload[i])
    /\ AudioUploadFailed =>
         /\ uploadOutcome = <<FALSE>>
         /\ remote = {}
         /\ uploaded_files = NoUploads
         /\ released = <<>>

\* The audio upload failed in a run whose manifest also held frames and the
\* note: the run ended with the error and with no remote file.
C31_Witness ==
    /\ Failed
    /\ AudioUploadFailed
    /\ Len(files_to_upload) >= 3
    /\ files_to_upload[Len(files_to_upload)].kind = "note"
    /\ remote = {}
\* ---------------------------------------------------- frame extraction skipped
\* run() is past its step 5: a later step is due, or the run ended, or an
\* exception of step 5 or of a later step is in flight.
FramesStepPassed ==
    \/ pc \notin {"extract_datetime", "create_target_directory", "convert_video",
                  "extract_audio", "extract_frames", "except", "raised"}
    \/ /\ pc \in {"except", "raised"}
       /\ failedStage \in {"frames", "meeting_md", "prompt", "note", "upload", "cleanup"}
FramesExecuted == "log:extracting_frames" \in effects

\* C32: _extract_frames is never called before step 5, and once run() is past
\* step 5 it has been called exactly when the prompt_type argument is not the
\* literal prompt_only_transcript.txt: also for the shortcut 'only transcript'
\* and for no argument with a transcript-only default prompt, both of which
\* select the template prompt_only_transcript.txt; in a real run the call has
\* started ffmpeg on the frames.
C32_FramesSkippedOnLiteralOnly ==
    /\ FramesExecuted => (FramesStepPassed /\ prompt_type # "prompt_only_transcript.txt")
    /\ FramesStepPassed =>
         /\ FramesExecuted <=> (prompt_type # "prompt_only_transcript.txt")
         /\ ~dry_run => (FramesExecuted <=> "subprocess:ffmpeg_frames" \in effects)
         /\ prompt_type = "only transcript" => FramesExecuted
         /\ (prompt_type = "" /\ prompt_file = "prompt_only_transcript.txt") => FramesExecuted
    /\ (prompt_file # "" /\ prompt_type # "") => prompt_file = resolve_prompt_shortcut(prompt_type)

\* A real run given the shortcut 'only transcript' selected the template
\* prompt_only_transcript.txt and had run ffmpeg on the frames all the same.
C32_Witness ==
    /\ Succeeded
    /\ ~dry_run
    /\ prompt_type = "only transcript"
    /\ prompt_file = "prompt_only_transcript.txt"
    /\ FramesExecuted
    /\ "subprocess:ffmpeg_frames" \in effects
\* ------------------------------------------------ the setting is overwritten
\* C33: until _extract_datetime runs, config.preferred_date_source is the
\* configured value; an invalid value is replaced by metadata before any
\* source is attempted, so that metadata is the first source attempted; once
\* _extract_datetime has returned a timestamp the setting names the source
\* that produced it, the last one attempted, a valid source that differs from
\* the configured value whenever a fallback was taken or the value was
\* invalid; no later step of the run changes the setting again.
C33_SettingNamesTheSource ==
    /\ [](pc = "extract_datetime" => preferred_date_source = date_source_setting)
    /\ []((pc # "extract_datetime" /\ date_source_setting \notin valid_sources) =>
             (tried # <<>> /\ tried[1] = "metadata"))
    /\ [](DatetimeResolved =>
             /\ tried # <<>>
             /\ preferred_date_source = Last(tried)
             /\ preferred_date_source \in valid_sources
             /\ (preferred_date_source # date_source_setting)
                   <=> (Len(tried) > 1 \/ date_source_setting \notin valid_sources))
    /\ [][pc # "extract_datetime" => preferred_date_source' = preferred_date_source]_vars

\* Configured for metadata, the timestamp came from the manual source: the
\* run ended with the setting changed to manual.
C33_Witness ==
    /\ Succeeded
    /\ date_source_setting = "metadata"
    /\ tried = <<"metadata", "file_mtime", "manual">>
    /\ preferred_date_source = "manual"
====
